---- MODULE Spec2Model ----
(***************************************************************************)
(* A model of sound-test (src/src/main.rs): a command-line program that    *)
(* assembles a fundsp signal graph (an 8-note C-major scale played by a    *)
(* Sequencer through chorus, reverb and limiter) and either renders it to  *)
(* a WAV file (save_to_wav) or plays it on the default output device (run, *)
(* write_data).                                                            *)
(*                                                                         *)
(* Units.  The source's f64 seconds are integers of milliseconds here      *)
(* (0.5 s = 500), the playhead is a count of sample frames, and a time     *)
(* k / sample_rate is compared with a time of m milliseconds by cross      *)
(* multiplication (k * 1000 against m * sample_rate), so no comparison is  *)
(* rounded.                                                                *)
(*                                                                         *)
(* fundsp and cpal are libraries whose code is not part of src/.  Their    *)
(* operations (Sequencer, Wave::render, envelope, limiter, the arities of  *)
(* the primitive nodes) are modelled from the specification's sections 4.4 *)
(* to 4.6 and 6; what main.rs itself decides (the schedule, the wiring,    *)
(* the order of the calls, write_data) is modelled from the code.          *)
(***************************************************************************)
EXTENDS Integers, Sequences, FiniteSets, TLC

VARIABLES
    pc,            \* position of the main thread
    output_arg,    \* args.output: TRUE when --output was given
    queried,       \* what main has asked the audio host for so far
    sample_format, \* config.sample_format(), "unknown" until asked
    config_rate,   \* config.sample_rate, 0 until run reads it
    channels,      \* config.channels, 0 until run reads it
    c,             \* the Net built by create_audio_graph, NoGraph before
    owner,         \* who holds the graph: "none", "main", "callback", "dropped"
    sample_rate,   \* the rate the graph was told, 0 while it was told none
    allocated,     \* TRUE once the graph pre-allocated its buffers
    late_setup,    \* TRUE once the graph was told a rate or allocated after
                   \* its first frame was pulled
    playhead,      \* frames the graph has produced
    advanced,      \* per note instance: samples the instance was advanced
    mixed,         \* notes accumulated into the frame produced last
    gate,          \* per note instance: its excitation envelope at the last frame
    phase,         \* per note instance: "idle", "excite" or "sustain"
    wave_len,      \* frames appended to the Wave of the offline render
    wave_last,     \* index of the frame appended last, -1 before the first
    stream,        \* "none", "built", "playing", "dropped"
    cb_pc,         \* position of the audio callback: "idle" or "frames"
    data,          \* the output buffer of the running callback
    cursor,        \* samples of data already written by write_data
    pulls,         \* frames write_data pulled in the running callback
    sig_at,        \* signal path: the node whose output sig is, 0 = not started
    sig,           \* signal path: the stereo pair <<left, right>> at sig_at
    sig_in         \* signal path: the pair that entered the node at sig_at

vars == <<pc, output_arg, queried, sample_format, config_rate, channels, c, owner,
          sample_rate, allocated, late_setup, playhead, advanced, mixed, gate,
          phase, wave_len, wave_last, stream, cb_pc, data, cursor, pulls,
          sig_at, sig, sig_in>>

-----------------------------------------------------------------------------
(* Bounds of the model. *)

\* largest channel count the audio host reports
MaxChannels == 3
\* longest output buffer the audio host hands to the callback
MaxLen == 4
\* frames the live stream is followed for
MaxLiveFrames == 6
\* largest magnitude of one note's output and of one effect's added signal,
\* in units of the limiter's ceiling
MaxAmp == 2
\* the signal path is followed at the frames of every ProbeStep milliseconds
ProbeStep == 250

-----------------------------------------------------------------------------
(* Program constants. *)

\* save_to_wav: let sample_rate = 44100.0
wav_sample_rate == 44100
\* save_to_wav: let duration = 6.0 (milliseconds)
wav_duration == 6000
\* create_audio_graph: let note_duration = 0.5 (milliseconds)
note_duration == 500
\* create_audio_graph: end_time = start_time + note_duration + 1.0
decay_tail == 1000
\* create_audio_graph: envelope(|t| if t < 0.01 { 1.0 } else { 0.0 })
excite_window == 10
\* sequencer.push(.., 0.01, 0.1, ..): fade in and fade out
fade_in == 10
fade_out == 100
\* Net::new(0, 2) and Sequencer::new(false, 2)
net_inputs == 0
net_outputs == 2
sequencer_outputs == 2
\* the peak ceiling the limiter enforces (1.0), the unit of amplitude
Ceiling == 1

c_major_scale == <<60, 62, 64, 65, 67, 69, 71, 72>>

\* note indices, as enumerate() numbers them
Notes == 0 .. (Len(c_major_scale) - 1)

\* the sample rates the default output configuration is drawn from
LiveRates == {44100, 48000}

\* the sample formats a device may report; "I8" stands for every format
\* main has no arm for
SampleFormats == {"F32", "I16", "U16", "I8"}

-----------------------------------------------------------------------------
(* Arithmetic. *)

Min(a, b) == IF a <= b THEN a ELSE b
Max(a, b) == IF a >= b THEN a ELSE b
Abs(x) == IF x < 0 THEN -x ELSE x

\* f64::round of a / b for a >= 0, b > 0 (halves away from zero)
RoundDiv(a, b) == (2 * a + b) \div (2 * b)

\* ceil(a / b) for a >= 0, b > 0
CeilDiv(a, b) == (a + b - 1) \div b

-----------------------------------------------------------------------------
(* The signal graph expressions and their channel arities. *)

Leaf(name) == <<"leaf", name>>
Pipe(a, b) == <<"pipe", a, b>>
Bus(a, b) == <<"bus", a, b>>
Stack(a, b) == <<"stack", a, b>>
Mul(a, b) == <<"mul", a, b>>

\* inputs and outputs of the primitive nodes main.rs uses
LeafArity(name) ==
    CASE name = "white" -> <<0, 1>>
      [] name = "envelope" -> <<0, 1>>
      [] name = "constant" -> <<0, 1>>
      [] name = "pluck" -> <<1, 1>>
      [] name = "pass" -> <<1, 1>>
      [] name = "bandpass_hz" -> <<1, 1>>
      [] name = "lowpass_hz" -> <<1, 1>>
      [] name = "dcblock" -> <<1, 1>>
      [] name = "pan" -> <<1, 2>>
      [] name = "chorus" -> <<1, 1>>
      [] name = "reverb_stereo" -> <<2, 2>>
      [] name = "limiter_stereo" -> <<2, 2>>

\* the arity of an expression: [ins, outs, ok], ok FALSE when a combinator
\* inside it joins mismatching channel counts
RECURSIVE Arity(_)
Arity(e) ==
    IF e[1] = "leaf"
    THEN [ins |-> LeafArity(e[2])[1], outs |-> LeafArity(e[2])[2], ok |-> TRUE]
    ELSE LET a == Arity(e[2])
             b == Arity(e[3])
             both == a.ok /\ b.ok
         IN CASE e[1] = "pipe" ->
                   [ins |-> a.ins, outs |-> b.outs,
                    ok |-> both /\ a.outs = b.ins]
              [] e[1] = "bus" ->
                   [ins |-> a.ins, outs |-> a.outs,
                    ok |-> both /\ a.ins = b.ins /\ a.outs = b.outs]
              [] e[1] = "stack" ->
                   [ins |-> a.ins + b.ins, outs |-> a.outs + b.outs,
                    ok |-> both]
              [] e[1] = "mul" ->
                   [ins |-> a.ins + b.ins, outs |-> a.outs,
                    ok |-> both /\ a.outs = b.outs]

\* pass() & bandpass_hz(110.0, 1.5) * 0.15 & bandpass_hz(200.0, 2.0) * 0.25
\*        & bandpass_hz(400.0, 2.5) * 0.2 & bandpass_hz(800.0, 3.0) * 0.1
\* ('*' binds tighter than '&', and '&' associates to the left)
body_resonance ==
    LET band == Mul(Leaf("bandpass_hz"), Leaf("constant"))
    IN Bus(Bus(Bus(Bus(Leaf("pass"), band), band), band), band)

\* the chain without its last stage, pan: one output, as acoustic_guitar_hz
guitar_note_mono ==
    Pipe(Pipe(Pipe(Pipe(
        Mul(Leaf("white"), Leaf("envelope")),
        Leaf("pluck")),
        body_resonance),
        Leaf("lowpass_hz")),
        Mul(Leaf("dcblock"), Leaf("constant")))

\* the guitar_note of create_audio_graph's loop; in Rust '*' binds tighter
\* than '>>', so the chain is
\*   (white * envelope) >> pluck >> (...) >> lowpass >> (dcblock * 0.7) >> pan
guitar_note ==
    Pipe(Pipe(Pipe(Pipe(Pipe(
        Mul(Leaf("white"), Leaf("envelope")),
        Leaf("pluck")),
        body_resonance),
        Leaf("lowpass_hz")),
        Mul(Leaf("dcblock"), Leaf("constant"))),
        Leaf("pan"))

\* chorus(0, 0.0, 0.002, 0.1) | chorus(1, 0.0, 0.002, 0.1)
chorus_pair == Stack(Leaf("chorus"), Leaf("chorus"))

-----------------------------------------------------------------------------
(* create_audio_graph. *)

start_time(i) == i * note_duration
\* a tail of twice the length
end_time_long(i) == i * note_duration + note_duration + 2 * decay_tail
end_time(i) == start_time(i) + note_duration + decay_tail

\* one instance handed to every note
NoteEvent_shared(i) ==
    [note |-> i, start_time |-> start_time(i), end_time |-> end_time(i),
     fade_in |-> fade_in, fade_out |-> fade_out,
     unit |-> 0, arity |-> Arity(guitar_note)]

\* the event of note i: its interval, its fades and the instance it owns;
\* the loop builds a new guitar_note for every i, so instance i is private
\* to note i
NoteEvent(i) ==
    [note |-> i, start_time |-> start_time(i), end_time |-> end_time(i),
     fade_in |-> fade_in, fade_out |-> fade_out,
     unit |-> i, arity |-> Arity(guitar_note)]

\* Sequencer::push: the unit must be a generator with the sequencer's
\* channel count
SequencerPush(s, ev) ==
    IF s.error # "none" THEN s
    ELSE IF ev.arity.ok /\ ev.arity.ins = 0 /\ ev.arity.outs = s.outputs
         THEN [s EXCEPT !.events = Append(@, ev)]
         ELSE [s EXCEPT !.error = "channel mismatch"]

\* the for loop over c_major_scale, from note i on
RECURSIVE PushNotes(_, _)
PushNotes(s, i) ==
    IF i > Len(c_major_scale) - 1 THEN s
    ELSE PushNotes(SequencerPush(s, NoteEvent(i)), i + 1)

\* Net::push: the node gets the next id
NetPush(net, kind, a) ==
    IF net.error # "none" THEN net
    ELSE IF a.ok
         THEN [net EXCEPT !.nodes =
                  Append(@, [kind |-> kind, ins |-> a.ins, outs |-> a.outs])]
         ELSE [net EXCEPT !.error = "channel mismatch"]

\* Net::pipe_all(source, target)
PipeAll(net, source, target) ==
    IF net.error # "none" THEN net
    ELSE IF net.nodes[source].outs = net.nodes[target].ins
         THEN [net EXCEPT !.edges = @ \cup {<<source, target>>}]
         ELSE [net EXCEPT !.error = "channel mismatch"]

\* Net::pipe_output(source)
PipeOutput(net, source) ==
    IF net.error # "none" THEN net
    ELSE IF net.nodes[source].outs = net.outputs
         THEN [net EXCEPT !.out_node = source]
         ELSE [net EXCEPT !.error = "channel mismatch"]

\* the value of c before create_audio_graph ran
NoGraph ==
    [inputs |-> 0, outputs |-> 0, events |-> <<>>, nodes |-> <<>>,
     edges |-> {}, out_node |-> 0, error |-> "unbuilt"]

\* the node ids Net::push hands out, in the order of the pushes
sequencer_id == 1
chorus_id == 2
reverb_id == 3
limiter_id == 4

\* create_audio_graph up to the last pipe_all: the sequencer with its eight
\* notes, the four nodes of the net and the three connections between them
assemble_graph ==
    LET sequencer == PushNotes([outputs |-> sequencer_outputs,
                                events |-> <<>>, error |-> "none"], 0)
        net0 == [inputs |-> net_inputs, outputs |-> net_outputs,
                 events |-> sequencer.events, nodes |-> <<>>, edges |-> {},
                 out_node |-> 0, error |-> sequencer.error]
        net1 == NetPush(net0, "sequencer",
                        [ins |-> 0, outs |-> sequencer.outputs, ok |-> TRUE])
        net2 == NetPush(net1, "chorus", Arity(chorus_pair))
        net3 == NetPush(net2, "reverb", Arity(Leaf("reverb_stereo")))
        net4 == NetPush(net3, "limiter", Arity(Leaf("limiter_stereo")))
        net5 == PipeAll(net4, sequencer_id, chorus_id)
        net6 == PipeAll(net5, chorus_id, reverb_id)
    IN PipeAll(net6, reverb_id, limiter_id)

\* the net's output taken from the reverb, past the limiter
create_audio_graph_unlimited == PipeOutput(assemble_graph, reverb_id)

\* net.pipe_output(limiter_id); net
create_audio_graph == PipeOutput(assemble_graph, limiter_id)

-----------------------------------------------------------------------------
(* The graph at work: one frame. *)

\* the gate evaluated on the time of the whole graph, as guitar_note_timed
\* gates on its start_time
excitation_envelope_global(k, rate) ==
    IF playhead * 1000 < excite_window * rate THEN 1 ELSE 0

\* the envelope closure of the note's excitation: 1.0 while t < 0.01, for
\* the local time t = k / rate of an instance advanced k samples so far
excitation_envelope(k, rate) ==
    IF k * 1000 < excite_window * rate THEN 1 ELSE 0

\* [start_time, end_time) contains the time of frame k
Contains(ev, k, rate) ==
    /\ ev.start_time * rate <= k * 1000
    /\ k * 1000 < ev.end_time * rate

\* the events the sequencer mixes into frame k
ActiveEvents(k, rate) ==
    {j \in 1 .. Len(c.events) : Contains(c.events[j], k, rate)}

\* Sequencer: produce the frame at the playhead and move the playhead on by
\* one sample period; only the events whose interval contains the playhead
\* are advanced and mixed
Tick ==
    \E act \in {ActiveEvents(playhead, sample_rate)} :
       /\ playhead' = playhead + 1
       /\ mixed' = {c.events[j].note : j \in act}
       /\ advanced' = [u \in Notes |->
                         advanced[u]
                         + Cardinality({j \in act : c.events[j].unit = u})]
       /\ gate' = [u \in Notes |->
                     IF advanced'[u] # advanced[u]
                     THEN excitation_envelope(advanced[u], sample_rate)
                     ELSE 0]
       /\ phase' = [u \in Notes |->
                      IF advanced'[u] = advanced[u] THEN phase[u]
                      ELSE IF gate'[u] = 1 THEN "excite" ELSE "sustain"]

GraphIdle == UNCHANGED <<playhead, mixed, advanced, gate, phase>>


-----------------------------------------------------------------------------
(* The initial state: the process has parsed its arguments. *)

NoData == <<>>

Init ==
    /\ pc = "main"
    /\ output_arg \in BOOLEAN
    /\ queried = {}
    /\ sample_format = "unknown"
    /\ config_rate = 0
    /\ channels = 0
    /\ c = NoGraph
    /\ owner = "none"
    /\ sample_rate = 0
    /\ allocated = FALSE
    /\ late_setup = FALSE
    /\ playhead = 0
    /\ advanced = [u \in Notes |-> 0]
    /\ mixed = {}
    /\ gate = [u \in Notes |-> 0]
    /\ phase = [u \in Notes |-> "idle"]
    /\ wave_len = 0
    /\ wave_last = -1
    /\ stream = "none"
    /\ cb_pc = "idle"
    /\ data = NoData
    /\ cursor = 0
    /\ pulls = <<>>
    /\ sig_at = 0
    /\ sig = <<0, 0>>
    /\ sig_in = <<0, 0>>

EnvIdle == UNCHANGED <<output_arg, queried, sample_format, config_rate, channels>>
WaveIdle == UNCHANGED <<wave_len, wave_last>>
CallbackIdle == UNCHANGED <<cb_pc, data, cursor, pulls>>
SignalIdle == UNCHANGED <<sig_at, sig, sig_in>>

-----------------------------------------------------------------------------
(* main. *)

\* if let Some(output_file) = args.output { save_to_wav(..); return; }
MainOutput ==
    /\ pc = "main"
    /\ output_arg
    /\ pc' = "save_to_wav"
    /\ EnvIdle /\ GraphIdle /\ WaveIdle /\ CallbackIdle /\ SignalIdle
    /\ UNCHANGED <<c, owner, sample_rate, allocated, late_setup, stream>>

\* the host asked before the arguments are looked at
MainHost_unguarded ==
    /\ pc = "main"
    /\ queried' = queried \cup {"host"}
    /\ pc' = IF output_arg THEN pc ELSE "device"
    /\ GraphIdle /\ WaveIdle /\ CallbackIdle /\ SignalIdle
    /\ UNCHANGED <<output_arg, sample_format, config_rate, channels,
                   c, owner, sample_rate, allocated, late_setup, stream>>

\* let host = cpal::default_host();
MainHost ==
    /\ pc = "main"
    /\ ~output_arg
    /\ queried' = queried \cup {"host"}
    /\ pc' = "device"
    /\ GraphIdle /\ WaveIdle /\ CallbackIdle /\ SignalIdle
    /\ UNCHANGED <<output_arg, sample_format, config_rate, channels,
                   c, owner, sample_rate, allocated, late_setup, stream>>

\* host.default_output_device().expect("Failed to find a default output device")
MainDevice ==
    /\ pc = "device"
    /\ queried' = queried \cup {"device"}
    /\ \E found \in BOOLEAN : pc' = IF found THEN "config" ELSE "panic"
    /\ GraphIdle /\ WaveIdle /\ CallbackIdle /\ SignalIdle
    /\ UNCHANGED <<output_arg, sample_format, config_rate, channels,
                   c, owner, sample_rate, allocated, late_setup, stream>>

\* device.default_output_config().unwrap(): the configuration carries the
\* sample rate and the channel count run reads later
MainConfig ==
    /\ pc = "config"
    /\ queried' = queried \cup {"config"}
    /\ \/ /\ pc' = "panic"
          /\ UNCHANGED <<config_rate, channels>>
       \/ /\ pc' = "format"
          /\ config_rate' \in LiveRates
          /\ channels' \in 1 .. MaxChannels
    /\ GraphIdle /\ WaveIdle /\ CallbackIdle /\ SignalIdle
    /\ UNCHANGED <<output_arg, sample_format, c, owner, sample_rate,
                   allocated, late_setup, stream>>

\* match config.sample_format() { F32 | I16 | U16 => run::<T>(..).unwrap(),
\*                                _ => panic!("Unsupported format") }
MainFormat ==
    /\ pc = "format"
    /\ queried' = queried \cup {"format"}
    /\ \E f \in SampleFormats :
          /\ sample_format' = f
          /\ pc' = IF f \in {"F32", "I16", "U16"} THEN "run" ELSE "panic"
    /\ GraphIdle /\ WaveIdle /\ CallbackIdle /\ SignalIdle
    /\ UNCHANGED <<output_arg, config_rate, channels, c, owner,
                   sample_rate, allocated, late_setup, stream>>

-----------------------------------------------------------------------------
(* run: the live path. *)

\* let mut c = create_audio_graph();
RunCreate ==
    /\ pc = "run"
    /\ c' = create_audio_graph
    /\ owner' = "main"
    /\ pc' = IF c'.error = "none" THEN "set_sample_rate" ELSE "panic"
    /\ EnvIdle /\ GraphIdle /\ WaveIdle /\ CallbackIdle /\ SignalIdle
    /\ UNCHANGED <<sample_rate, allocated, late_setup, stream>>

\* the call of allocate left out
RunSetSampleRate_no_allocate ==
    /\ pc = "set_sample_rate"
    /\ owner = "main"
    /\ sample_rate' = config_rate
    /\ late_setup' = (late_setup \/ playhead > 0)
    /\ pc' = "build_output_stream"
    /\ EnvIdle /\ GraphIdle /\ WaveIdle /\ CallbackIdle /\ SignalIdle
    /\ UNCHANGED <<c, owner, allocated, stream>>

\* c.set_sample_rate(sample_rate);
RunSetSampleRate ==
    /\ pc = "set_sample_rate"
    /\ owner = "main"
    /\ sample_rate' = config_rate
    /\ late_setup' = (late_setup \/ playhead > 0)
    /\ pc' = "allocate"
    /\ EnvIdle /\ GraphIdle /\ WaveIdle /\ CallbackIdle /\ SignalIdle
    /\ UNCHANGED <<c, owner, allocated, stream>>

\* c.allocate();
RunAllocate ==
    /\ pc = "allocate"
    /\ owner = "main"
    /\ allocated' = TRUE
    /\ late_setup' = (late_setup \/ playhead > 0)
    /\ pc' = "build_output_stream"
    /\ EnvIdle /\ GraphIdle /\ WaveIdle /\ CallbackIdle /\ SignalIdle
    /\ UNCHANGED <<c, owner, sample_rate, stream>>

\* the graph lent to the callback and kept by run
RunBuildStream_shared ==
    /\ pc = "build_output_stream"
    /\ owner = "main"
    /\ \/ /\ stream' = "built"
          /\ owner' = "main"
          /\ pc' = "play"
       \/ /\ stream' = "none"
          /\ owner' = "dropped"
          /\ pc' = "panic"
    /\ EnvIdle /\ GraphIdle /\ WaveIdle /\ CallbackIdle /\ SignalIdle
    /\ UNCHANGED <<c, sample_rate, allocated, late_setup>>

\* let mut next_value = move || ..c.get_stereo();
\* let stream = device.build_output_stream(config, move |data, _| .., ..)?;
\* the graph moves into the closure and with it into the stream's callback;
\* an Err goes back to main, whose unwrap panics
RunBuildStream ==
    /\ pc = "build_output_stream"
    /\ owner = "main"
    /\ \/ /\ stream' = "built"
          /\ owner' = "callback"
          /\ pc' = "play"
       \/ /\ stream' = "none"
          /\ owner' = "dropped"
          /\ pc' = "panic"
    /\ EnvIdle /\ GraphIdle /\ WaveIdle /\ CallbackIdle /\ SignalIdle
    /\ UNCHANGED <<c, sample_rate, allocated, late_setup>>

\* stream.play()?; an Err returns from run, which drops the stream, and
\* dropping a stream waits for a callback that is running
RunPlay ==
    /\ pc = "play"
    /\ \/ /\ stream' = "playing"
          /\ owner' = owner
          /\ pc' = "sleep"
       \/ /\ cb_pc = "idle"
          /\ stream' = "dropped"
          /\ owner' = "dropped"
          /\ pc' = "panic"
    /\ EnvIdle /\ GraphIdle /\ WaveIdle /\ CallbackIdle /\ SignalIdle
    /\ UNCHANGED <<c, sample_rate, allocated, late_setup>>

\* std::thread::sleep(6000 ms); Ok(()): the stream is dropped on return
RunSleep ==
    /\ pc = "sleep"
    /\ cb_pc = "idle"
    /\ stream' = "dropped"
    /\ owner' = "dropped"
    /\ pc' = "exit"
    /\ EnvIdle /\ GraphIdle /\ WaveIdle /\ CallbackIdle /\ SignalIdle
    /\ UNCHANGED <<c, sample_rate, allocated, late_setup>>

-----------------------------------------------------------------------------
(* The audio callback: write_data. *)

\* the stereo sample the graph produces for frame k
LeftOf(k) == <<"left", k>>
RightOf(k) == <<"right", k>>

\* T::from_sample for the T main's match chose: the value in format T
from_sample(T, x) == <<T, x>>

\* what the buffer holds before write_data wrote it
Stale == <<"stale", 0>>

\* left and right chosen by the sample's index in the buffer, not by its
\* channel in the frame
WriteChunk_parity(buf, pos, ch, left, right) ==
    [k \in 1 .. Len(buf) |->
        IF pos < k /\ k <= pos + ch
        THEN IF (k - 1) % 2 = 0 THEN left ELSE right
        ELSE buf[k]]

\* one frame of write_data's loop: the chunk after pos, of at most ch
\* samples, gets left on its even and right on its odd channels
WriteChunk(buf, pos, ch, left, right) ==
    [k \in 1 .. Len(buf) |->
        IF pos < k /\ k <= pos + ch
        THEN IF (k - pos - 1) % 2 = 0 THEN left ELSE right
        ELSE buf[k]]

\* the host calls the data callback with a buffer of its choosing
CallbackBegin ==
    /\ stream \in {"built", "playing"}
    /\ owner = "callback"
    /\ cb_pc = "idle"
    /\ \E len \in 0 .. MaxLen :
          /\ playhead + CeilDiv(len, channels) <= MaxLiveFrames
          /\ data' = [k \in 1 .. len |-> Stale]
    /\ cursor' = 0
    /\ pulls' = <<>>
    /\ cb_pc' = "frames"
    /\ EnvIdle /\ GraphIdle /\ WaveIdle /\ SignalIdle
    /\ UNCHANGED <<pc, c, owner, sample_rate, allocated, late_setup, stream>>

\* for frame in output.chunks_mut(channels) { let sample = next_sample(); .. }
CallbackFrame ==
    /\ cb_pc = "frames"
    /\ owner = "callback"
    /\ cursor < Len(data)
    /\ Tick
    /\ pulls' = Append(pulls, playhead)
    /\ data' = WriteChunk(data, cursor, channels,
                          from_sample(sample_format, LeftOf(playhead)),
                          from_sample(sample_format, RightOf(playhead)))
    /\ cursor' = Min(cursor + channels, Len(data))
    /\ cb_pc' = cb_pc
    /\ EnvIdle /\ WaveIdle /\ SignalIdle
    /\ UNCHANGED <<pc, c, owner, sample_rate, allocated, late_setup, stream>>

\* the loop is over: write_data and the callback return
CallbackEnd ==
    /\ cb_pc = "frames"
    /\ cursor >= Len(data)
    /\ cb_pc' = "idle"
    /\ EnvIdle /\ GraphIdle /\ WaveIdle /\ SignalIdle
    /\ UNCHANGED <<pc, c, owner, sample_rate, allocated, late_setup, stream,
                   data, cursor, pulls>>

-----------------------------------------------------------------------------
(* save_to_wav: the offline path. *)

\* the length Wave::render gives the wave: round(duration * sample_rate)
RenderLength(rate, duration) == RoundDiv(duration * rate, 1000)

\* the length of one note passed for the length of the render
render_args_note ==
    [sample_rate |-> wav_sample_rate, duration |-> note_duration]

\* Wave::render(sample_rate, duration, &mut c): what save_to_wav passes
render_args == [sample_rate |-> wav_sample_rate, duration |-> wav_duration]

\* let mut c = create_audio_graph();
SaveCreate ==
    /\ pc = "save_to_wav"
    /\ c' = create_audio_graph
    /\ owner' = "main"
    /\ pc' = IF c'.error = "none" THEN "render" ELSE "panic"
    /\ EnvIdle /\ GraphIdle /\ WaveIdle /\ CallbackIdle /\ SignalIdle
    /\ UNCHANGED <<sample_rate, allocated, late_setup, stream>>

\* Wave::render(sample_rate, duration, &mut c), its start: the graph is
\* told the rate and allocates before the first frame
RenderBegin ==
    /\ pc = "render"
    /\ owner = "main"
    /\ sample_rate' = render_args.sample_rate
    /\ allocated' = TRUE
    /\ late_setup' = (late_setup \/ playhead > 0)
    /\ wave_len' = 0
    /\ wave_last' = -1
    /\ pc' = "render_loop"
    /\ EnvIdle /\ GraphIdle /\ CallbackIdle /\ SignalIdle
    /\ UNCHANGED <<c, owner, stream>>

\* Wave::render, one frame: the graph produces it and the wave appends it
RenderFrame ==
    /\ pc = "render_loop"
    /\ wave_len < RenderLength(render_args.sample_rate, render_args.duration)
    /\ Tick
    /\ wave_len' = wave_len + 1
    /\ wave_last' = playhead
    /\ pc' = pc
    /\ EnvIdle /\ CallbackIdle /\ SignalIdle
    /\ UNCHANGED <<c, owner, sample_rate, allocated, late_setup, stream>>

\* Wave::render returns the wave
RenderEnd ==
    /\ pc = "render_loop"
    /\ wave_len >= RenderLength(render_args.sample_rate, render_args.duration)
    /\ pc' = "save_wav32"
    /\ EnvIdle /\ GraphIdle /\ WaveIdle /\ CallbackIdle /\ SignalIdle
    /\ UNCHANGED <<c, owner, sample_rate, allocated, late_setup, stream>>

\* wave.save_wav32(path).expect(..); println!(..)
SaveWav ==
    /\ pc = "save_wav32"
    /\ \E written \in BOOLEAN : pc' = IF written THEN "exit" ELSE "panic"
    /\ owner' = "dropped"
    /\ EnvIdle /\ GraphIdle /\ WaveIdle /\ CallbackIdle /\ SignalIdle
    /\ UNCHANGED <<c, sample_rate, allocated, late_setup, stream>>

-----------------------------------------------------------------------------

Next ==
    \/ MainOutput \/ MainHost \/ MainDevice \/ MainConfig \/ MainFormat
    \/ RunCreate \/ RunSetSampleRate \/ RunAllocate \/ RunBuildStream
    \/ RunPlay \/ RunSleep
    \/ CallbackBegin \/ CallbackFrame \/ CallbackEnd
    \/ SaveCreate \/ RenderBegin \/ RenderFrame \/ RenderEnd \/ SaveWav

Spec == Init /\ [][Next]_vars

-----------------------------------------------------------------------------
(* The signal path of one frame: the Net evaluates its nodes along the     *)
(* edges create_audio_graph laid, from the sequencer to the net's output.  *)
(* Amplitudes are integers in units of the limiter's ceiling.  White noise *)
(* drives every note and the effects hold delayed signal, so a note's      *)
(* output and what an effect adds are any value up to MaxAmp.              *)

Amps == (-MaxAmp) .. MaxAmp

\* the first frame at or after a time of ms milliseconds
FrameAt(ms, rate) == CeilDiv(ms * rate, 1000)

\* samples the instance of note u was advanced in the first k frames
Elapsed(u, k, rate) ==
    Max(0, Min(k, FrameAt(end_time(u), rate)) - FrameAt(start_time(u), rate))

\* the graph-side state of the offline render after k frames
RenderState(k) ==
    LET rate == wav_sample_rate
        ran(u) == k > 0 /\ Elapsed(u, k, rate) > Elapsed(u, k - 1, rate)
    IN /\ playhead = k
       /\ advanced = [u \in Notes |-> Elapsed(u, k, rate)]
       /\ mixed = {u \in Notes : ran(u)}
       /\ gate = [u \in Notes |->
                    IF ran(u)
                    THEN excitation_envelope(Elapsed(u, k - 1, rate), rate)
                    ELSE 0]
       /\ phase = [u \in Notes |->
                     IF Elapsed(u, k, rate) = 0 THEN "idle"
                     ELSE IF excitation_envelope(Elapsed(u, k, rate) - 1, rate) = 1
                          THEN "excite" ELSE "sustain"]

\* the frames the signal path is followed at
ProbeFrames ==
    {FrameAt(j * ProbeStep, wav_sample_rate) :
        j \in 1 .. (wav_duration \div ProbeStep)}

\* the offline render, stopped after one of the probe frames
SignalInit ==
    /\ pc = "render_loop"
    /\ output_arg = TRUE
    /\ queried = {}
    /\ sample_format = "unknown"
    /\ config_rate = 0
    /\ channels = 0
    /\ c = create_audio_graph
    /\ owner = "main"
    /\ sample_rate = wav_sample_rate
    /\ allocated = TRUE
    /\ late_setup = FALSE
    /\ \E k \in ProbeFrames :
          /\ RenderState(k)
          /\ wave_len = k
          /\ wave_last = k - 1
    /\ stream = "none"
    /\ cb_pc = "idle"
    /\ data = NoData
    /\ cursor = 0
    /\ pulls = <<>>
    /\ sig_at = 0
    /\ sig = <<0, 0>>
    /\ sig_in = <<0, 0>>

\* the sum of the values f gives the members of set S
RECURSIVE SumOver(_, _)
SumOver(f, S) ==
    IF S = {} THEN 0
    ELSE LET x == CHOOSE y \in S : TRUE
         IN f[x] + SumOver(f, S \ {x})

\* the limiter: peaks beyond the ceiling are brought down to it
Limit(x) ==
    IF x > Ceiling THEN Ceiling
    ELSE IF x < -Ceiling THEN -Ceiling ELSE x

\* what node kind makes of the pair in, given what its delay lines add
NodeOutput(kind, in, wet) ==
    CASE kind = "limiter" -> <<Limit(in[1]), Limit(in[2])>>
      [] kind \in {"chorus", "reverb"} -> <<in[1] + wet[1], in[2] + wet[2]>>
      [] OTHER -> in

StaticIdle ==
    /\ EnvIdle /\ GraphIdle /\ WaveIdle /\ CallbackIdle
    /\ UNCHANGED <<pc, c, owner, sample_rate, allocated, late_setup, stream>>

\* the id the signal has once the net has output it
NetOut == Len(c.nodes) + 1

\* the sequencer sums the notes mixed into the frame; pan(0.0) puts each
\* note equally on both channels
SigSequencer ==
    /\ sig_at = 0
    /\ c.error = "none"
    /\ \E amp \in [mixed -> Amps] :
          LET total == SumOver(amp, mixed)
          IN sig' = <<total, total>>
    /\ sig_in' = <<0, 0>>
    /\ sig_at' = 1
    /\ StaticIdle

\* the signal passes an edge into the next node
SigNode ==
    /\ sig_at \in 1 .. Len(c.nodes)
    /\ \E n \in 1 .. Len(c.nodes) :
          /\ <<sig_at, n>> \in c.edges
          /\ \E wet \in Amps \X Amps :
                sig' = NodeOutput(c.nodes[n].kind, sig, wet)
          /\ sig_in' = sig
          /\ sig_at' = n
    /\ StaticIdle

\* the net's output is the output of the node pipe_output connected
SigOutput ==
    /\ sig_at \in 1 .. Len(c.nodes)
    /\ sig_at = c.out_node
    /\ sig_at' = NetOut
    /\ UNCHANGED <<sig, sig_in>>
    /\ StaticIdle

SignalNext == SigSequencer \/ SigNode \/ SigOutput

SignalSpec == SignalInit /\ [][SignalNext]_vars

\* the offline render's graph state is the closed form RenderState
RenderStateAgrees ==
    pc = "render_loop" => RenderState(playhead)

-----------------------------------------------------------------------------
(* The properties. *)

\* the main thread is past Wave::render of the offline path
Rendered == output_arg /\ pc \in {"save_wav32", "exit"}

\* C1: save_to_wav renders 6.0 s at 44100 Hz: the wave receives the frames
\* one by one in the order the graph produces them (frame k is the k-th
\* appended), never more than round(duration * sampleRate) = 264600 of
\* them, and exactly 264600 have been delivered when the file is written.
C1_OfflineRenderLength ==
    /\ RenderLength(44100, 6000) = 264600
    /\ (output_arg /\ pc \in {"render_loop", "save_wav32", "exit"}) =>
          /\ sample_rate = 44100
          /\ wave_len <= 264600
          /\ wave_last = wave_len - 1
          /\ playhead = wave_len
    /\ Rendered => wave_len = 264600

C1_Witness == pc = "exit" /\ output_arg /\ wave_len = 264600

C3_OfflineIgnoresAudioHost ==
    /\ output_arg =>
          /\ queried = {}
          /\ sample_format = "unknown"
          /\ config_rate = 0
          /\ stream = "none"
          /\ pc \in {"main", "save_to_wav", "render", "render_loop",
                     "save_wav32", "exit", "panic"}
          /\ pc = "panic" => wave_len = RenderLength(wav_sample_rate, wav_duration)
    /\ (pc = "panic" /\ queried # {}) => ~output_arg

C3_Witness == output_arg /\ pc = "exit" /\ queried = {}

C5_WriteData ==
    (stream # "none" /\ owner = "callback") =>
       /\ channels >= 1
       /\ cursor <= Len(data)
       /\ Len(pulls) = CeilDiv(cursor, channels)
       /\ cursor >= Len(data) => Len(pulls) = CeilDiv(Len(data), channels)
       /\ \A i \in 1 .. Len(pulls) - 1 : pulls[i + 1] = pulls[i] + 1
       /\ \A k \in 0 .. cursor - 1 :
             data[k + 1] =
                from_sample(sample_format,
                            IF (k % channels) % 2 = 0
                            THEN LeftOf(pulls[(k \div channels) + 1])
                            ELSE RightOf(pulls[(k \div channels) + 1]))
       /\ \A k \in cursor .. Len(data) - 1 : data[k + 1] = Stale

\* a buffer of four samples for three channels is done: two pulls, the
\* second for a frame of one sample
C5_Witness ==
    /\ cb_pc = "frames"
    /\ channels = 3
    /\ Len(data) = 4
    /\ cursor = 4
    /\ Len(pulls) = 2
    /\ data[4] = from_sample(sample_format, LeftOf(pulls[2]))

\* what the graph is made of and holds
GraphState ==
    <<c, sample_rate, allocated, playhead, advanced, mixed, gate, phase>>

\* C6: in live mode the graph is built, told its rate and allocated by the
\* main thread before the stream exists; building the stream hands the
\* graph to the callback; from then on only steps of the callback change
\* the graph, and the main thread only plays, sleeps and returns.
C6_ExclusiveHandover ==
    /\ [](stream # "none" =>
            /\ c.error = "none"
            /\ sample_rate = config_rate
            /\ allocated
            /\ owner \in {"callback", "dropped"}
            /\ pc \in {"play", "sleep", "exit", "panic"})
    /\ []((~output_arg /\ stream = "none") => playhead = 0)
    /\ [][(stream # "none" /\ GraphState' # GraphState) =>
             (pc' = pc /\ owner = "callback" /\ cb_pc = "frames")]_vars

C6_Witness ==
    owner = "callback" /\ pc = "sleep" /\ stream = "playing" /\ playhead > 0

\* C7: the assembled graph has matching channel counts at every series
\* connection, so create_audio_graph never fails on a mismatch: every note
\* is 0 in, 2 out like the sequencer; sequencer (0, 2), chorus pair (2, 2),
\* reverb (2, 2) and limiter (2, 2) are piped in this order, and the
\* limiter's 2 outputs are the net's 2 outputs.
C7_AritiesMatch ==
    c # NoGraph =>
       /\ c.error = "none"
       /\ c.inputs = 0 /\ c.outputs = 2
       /\ Len(c.events) = 8
       /\ \A j \in 1 .. Len(c.events) :
             /\ c.events[j].arity.ok
             /\ c.events[j].arity.ins = 0
             /\ c.events[j].arity.outs = 2
       /\ [n \in 1 .. Len(c.nodes) |-> <<c.nodes[n].kind, c.nodes[n].ins, c.nodes[n].outs>>]
             = << <<"sequencer", 0, 2>>, <<"chorus", 2, 2>>,
                  <<"reverb", 2, 2>>, <<"limiter", 2, 2>> >>
       /\ c.edges = {<<1, 2>>, <<2, 3>>, <<3, 4>>}
       /\ \A e \in c.edges : c.nodes[e[1]].outs = c.nodes[e[2]].ins
       /\ c.out_node = 4
       /\ c.nodes[c.out_node].outs = c.outputs

C7_Witness ==
    c.error = "none" /\ Len(c.events) = 8 /\ c.out_node = 4 /\ playhead > 0

\* C8: the limiter is the node the net takes its output from, and no
\* sample of a frame the net outputs exceeds the ceiling 1.0 in magnitude,
\* whatever the notes sounding together add up to.
C8_LimiterLast ==
    /\ c.out_node \in 1 .. Len(c.nodes)
    /\ c.nodes[c.out_node].kind = "limiter"
    /\ sig_at = NetOut =>
          /\ Abs(sig[1]) <= Ceiling
          /\ Abs(sig[2]) <= Ceiling
          /\ sig = <<Limit(sig_in[1]), Limit(sig_in[2])>>

\* three notes sound together, their sum reaches the limiter above the
\* ceiling and leaves the net at the ceiling
C8_Witness ==
    /\ sig_at = NetOut
    /\ Cardinality(mixed) = 3
    /\ Abs(sig_in[1]) > Ceiling
    /\ Abs(sig[1]) = Ceiling

\* the time of frame k lies in the first 0.01 s of note u
InExciteWindow(u, k, rate) ==
    /\ 500 * u * rate <= k * 1000
    /\ k * 1000 < (500 * u + 10) * rate

C10_ScheduleFitsRender ==
    /\ c # NoGraph =>
          \A j \in 1 .. Len(c.events) :
             /\ c.events[j].start_time = 500 * (j - 1)
             /\ c.events[j].end_time = 500 * (j - 1) + 1500
    /\ Cardinality(mixed) <= 3
    /\ (playhead > 0 /\ (playhead - 1) * 1000 >= 5000 * sample_rate) => mixed = {}
    /\ Rendered => \A u \in Notes : advanced[u] * 1000 = 1500 * sample_rate

\* the last note has run its whole interval and the render goes on
C10_Witness ==
    /\ pc = "render_loop"
    /\ mixed = {}
    /\ advanced[7] = 66150
    /\ playhead < 264600

====
